---------------------------- MODULE Spec2Model ----------------------------
(***************************************************************************)
(* Wallet back end: the routes of account.js (transfer, balance,           *)
(* statement) and of user.js (signup, profile, search, transactions) over  *)
(* the Account, User and Transaction collections.                          *)
(*                                                                         *)
(* Money is a JavaScript Number (binary floating point).  A value is kept  *)
(* as an integer count of units, Dollar units to the rupee, and every      *)
(* arithmetic result is rounded by fl to Precision significant bits, the   *)
(* way a double rounds to 53.  Whole rupees in the program's range are     *)
(* exact, fractions are rounded according to the magnitude.                *)
(*                                                                         *)
(* A transfer runs in a multi-document transaction: its reads see the      *)
(* snapshot taken by its first operation, its writes stay private until    *)
(* the commit, and a write to a document that another transaction has      *)
(* written (uncommitted, or committed after the snapshot) throws a         *)
(* WriteConflict.  Each awaited database operation is one step.            *)
(***************************************************************************)
EXTENDS Integers, Sequences, FiniteSets, TLC

\* ------------------------------------------------------------- bounds
MaxReq == 2          \* transfer requests issued in one behaviour
MaxFaults == 1       \* database operations that fail for an infrastructure reason
MaxReads == 2        \* GET /account/balance requests in one behaviour
Precision == 17      \* significant bits of a number (a double has 53)
FracBits == 7        \* a unit is 2^-FracBits of a rupee

Dollar == 2 ^ FracBits

\* API calls of the auth store that can be in flight at once
MaxCalls == 2

\* ------------------------------------------------------ program constants
AmountCeiling == 100000      \* zod .max(100000)
MaxDescription == 200        \* zod .max(200)
SeedMin == 1000              \* 1000 + Math.random() * 9000
SeedSpan == 9000
DefaultStatementLimit == 5   \* parseInt(req.query.limit) || 5
DefaultPageLimit == 10       \* parseInt(req.query.limit) || 10

\* --------------------------------------------------------------- numbers
Abs(x) == IF x < 0 THEN 0 - x ELSE x

\* The spacing of representable numbers at magnitude x.
RECURSIVE Quantum(_)
Quantum(x) == IF x < 2 ^ Precision THEN 1 ELSE 2 * Quantum(x \div 2)

\* Round to nearest, ties to even: the result of one double operation.
RoundNearestEven(x) ==
    LET a == Abs(x)
        q == Quantum(a)
        lo == (a \div q) * q
        rem == a - lo
        up == IF 2 * rem > q THEN TRUE
              ELSE IF 2 * rem < q THEN FALSE
              ELSE ((lo \div q) % 2) = 1
        r == IF up THEN lo + q ELSE lo
    IN  IF x < 0 THEN 0 - r ELSE r

fl(x) == RoundNearestEven(x)

Representable(x) == fl(x) = x

\* $inc: the stored number plus the increment, as one double addition.
Inc(bal, delta) == fl(bal + delta)

\* Number.prototype.toFixed(2) then parseFloat: the nearest number of
\* hundredths, the larger one on a tie.  The result is in hundredths.
ToFixed2(x) == (x * 200 + Dollar) \div (2 * Dollar)

\* ------------------------------------------------------------ identifiers
Ids == {"u1", "u2", "u3", "u4"}           \* well-formed ObjectIds
Ghost == "ghost"                          \* not an ObjectId
Upper(u) == CASE u = "u1" -> "U1" [] u = "u2" -> "U2"
              [] u = "u3" -> "U3" [] u = "u4" -> "U4"
UpperIds == {Upper(u) : u \in Ids}        \* the same 24 hex digits in upper case
CastError == "CastError"

\* Mongoose casts a query value for an ObjectId path; hex digits are
\* case-insensitive, anything that is not an ObjectId throws.
CastObjectId(s) ==
    IF s \in Ids THEN s
    ELSE IF s \in UpperIds THEN CHOOSE u \in Ids : Upper(u) = s
    ELSE CastError

Reqs == {1, 2, 3}                         \* handler instances that can be in flight
NoReq == 0

Sigs == {1, 2}                            \* signup handler instances
NewIds == <<"u3", "u4">>                  \* the _id values of new User documents
Username(u) == CASE u = "u1" -> "alice" [] u = "u2" -> "bob"
                 [] u = "u3" -> "carol" [] u = "u4" -> "dave"

VARIABLES
    users,      \* User collection: the ids that have a document
    accounts,   \* Account collection: the user ids that have a document
    balance,    \* committed balance of each account
    seed,       \* the balance each account was created with
    log,        \* Transaction collection, in insertion order
    lock,       \* account -> the transaction holding an uncommitted write
    req,        \* each handler instance: position, inputs, session, response
    faults,     \* infrastructure failures so far
    started,    \* transfer requests issued so far
    reads,      \* balance reads so far
    obs,        \* the read request in progress or the last read response
    committed,  \* every committed state of the balances so far
    sig,        \* each signup handler instance
    userDoc,    \* User documents: username and firstName of each id
    auth        \* the browser: auth store, localStorage, API calls in flight

vars == <<users, accounts, balance, seed, log, lock, req, faults, started,
          reads, obs, committed, sig, userDoc, auth>>

NoArgs == [from |-> "", to |-> "", amount |-> 0, descLen |-> 0]
NoSnap == [accounts |-> {}, balance |-> [u \in Ids |-> 0], users |-> {}]
NoPend == [ops |-> <<>>, recs |-> <<>>]
NoObs == [route |-> "", pc |-> "done", account |-> "", status |-> 0,
          value |-> 0, during |-> {}]
NoDoc == [username |-> "", firstName |-> ""]

\* A handler instance before its request arrives.
\*   pc        position in the handler
\*   args      req.userId and req.body
\*   txn       the session's transaction state in the driver
\*   server    the transaction's state on the server
\*   snap      the transaction's snapshot
\*   stale     documents others committed since the snapshot
\*   pend      the transaction's uncommitted $inc operations and inserts
\*   resp      the HTTP response sent
\*   failedAt  the operation whose error reached the catch block
\*   touched   history: a step of this request changed committed data
Idle == [pc |-> "idle", args |-> NoArgs, txn |-> "none", server |-> "none",
         snap |-> NoSnap, stale |-> {}, pend |-> NoPend, resp |-> "none",
         failedAt |-> "none", touched |-> FALSE]

\* A signup handler instance before its request arrives.
\*   id        the _id of the User document it created
\*   existed   history: the username was taken when the request arrived
SigIdle == [pc |-> "idle", username |-> "", id |-> "", resp |-> "none",
            failedAt |-> "none", existed |-> FALSE]

\* The User documents of the users in U.
Docs(U) ==
    [u \in Ids |-> IF u \in U THEN [username |-> Username(u), firstName |-> "A"]
                   ELSE NoDoc]

Body(from, to, amount, descLen) ==
    [from |-> from, to |-> to, amount |-> amount, descLen |-> descLen]

\* ----------------------------------------------------------------- inputs
\* Mutant: Account.create without a balance, which stores the schema default.
SeedValuesSchemaDefault == {0}

\* Values of 1000 + Math.random() * 9000: the least one and one close to the
\* greatest, which has a fraction.
SeedValues == {SeedMin * Dollar, (SeedMin + SeedSpan) * Dollar - 2 ^ (FracBits - 3)}

\* Request bodies: transfers of 600 to every kind of recipient, a transfer
\* of one unit (a fraction of a rupee), the largest amount and description
\* the schema accepts, and one body per validation rule.
TransferBodies ==
    UNION {
        {Body(f, t, 600 * Dollar, 0) : t \in {"u1", "u2", "u4", Ghost, Upper(f)}}
        \cup {Body(f, t, 1, 0) : t \in {"u1", "u2"} \ {f}}
        \cup {Body(f, "u4", AmountCeiling * Dollar, MaxDescription)}
        \cup {Body(f, "u1", 0, 0),
              Body(f, "u2", 0 - 600 * Dollar, 0),
              Body(f, "u2", (AmountCeiling + 1) * Dollar, 0),
              Body(f, "", 600 * Dollar, 0),
              Body(f, "u2", 600 * Dollar, MaxDescription + 1)}
        : f \in {"u1", "u2"} }

\* ------------------------------------------------------------------ state
\* The payload of the token jwt.sign issues for u, and no token.
Token(u) == [userId |-> u]

NoToken == [userId |-> ""]

\* No user (null).
Null == ""

Tokens == {NoToken, Token("u1"), Token("u3")}

AuthCalls == 1..MaxCalls

NoCall == [op |-> "idle", init |-> FALSE, sent |-> NoToken]

\* create(...): the store as the page builds it from localStorage.
\* signedOut is history: signout has completed and no sign-in or sign-up
\* has succeeded since.
CreateStore(lsToken, lsUser) ==
    [user |-> lsUser, token |-> lsToken, isLoading |-> FALSE,
     isAuthenticated |-> FALSE, lsToken |-> lsToken, lsUser |-> lsUser,
     call |-> [c \in AuthCalls |-> NoCall], signedOut |-> FALSE]

TypeOK ==
    /\ users \subseteq Ids
    /\ accounts \subseteq users
    /\ balance \in [Ids -> Int]
    /\ lock \in [Ids -> Reqs \cup {NoReq}]
    /\ \A r \in Reqs :
         /\ req[r].pc \in {"idle", "findSender", "findRecipient", "findUser",
                           "debit", "credit", "create", "commit", "catch", "done"}
         /\ req[r].txn \in {"none", "starting", "in_progress", "committed", "aborted"}
         /\ req[r].server \in {"none", "open", "committed", "aborted"}
    /\ faults \in 0..MaxFaults
    /\ started \in Nat
    /\ auth.token \in Tokens
    /\ auth.lsToken \in Tokens
    /\ auth.user \in {Null, "u1", "u3"}
    /\ auth.lsUser \in {Null, "u1", "u3"}
    /\ auth.isLoading \in BOOLEAN
    /\ auth.isAuthenticated \in BOOLEAN

\* The collections once u1 and u2 have signed up.
InitStore(s1, s2) ==
    /\ users = {"u1", "u2"}
    /\ accounts = {"u1", "u2"}
    /\ seed = [u \in Ids |-> IF u = "u1" THEN s1 ELSE IF u = "u2" THEN s2 ELSE 0]
    /\ balance = seed
    /\ committed = {seed}
    /\ log = <<>>
    /\ lock = [u \in Ids |-> NoReq]
    /\ faults = 0
    /\ reads = 0
    /\ obs = NoObs
    /\ userDoc = Docs({"u1", "u2"})
    /\ sig = [s \in Sigs |-> SigIdle]
    /\ auth = CreateStore(NoToken, Null)

Init ==
    /\ InitStore(SeedMin * Dollar, 5 * SeedMin * Dollar)
    /\ req = [r \in Reqs |-> Idle]
    /\ started = 0

\* ------------------------------------------------------- transfer handler
\* Mutant: the schema without .max(100000).
ValidTransferBodyNoCeiling(a) ==
    /\ a.to /= ""
    /\ a.amount > 0
    /\ a.descLen <= MaxDescription

\* transferBody.safeParse(req.body)
ValidTransferBody(a) ==
    /\ a.to /= ""
    /\ a.amount > 0
    /\ a.amount <= AmountCeiling * Dollar
    /\ a.descLen <= MaxDescription

\* Mutant: conflict detection for the collection as a whole: a write
\* conflicts with any other transaction's write.
WriteConflictOnCollection(r, u) ==
    \/ \E v \in Ids : lock[v] \notin {NoReq, r}
    \/ req[r].stale /= {}

\* Mutant: updates that do not take part in the transaction's conflict
\* detection (plain read-then-write).
WriteConflictUndetected(r, u) == FALSE

\* A write conflicts when another transaction holds an uncommitted write on
\* the document or committed one after this transaction's snapshot.
WriteConflict(r, u) == lock[u] \notin {NoReq, r} \/ u \in req[r].stale

ReleaseLocks(r) == [u \in Ids |-> IF lock[u] = r THEN NoReq ELSE lock[u]]

\* res.status(..).json(..), then finally: session.endSession()
Respond(q, status) ==
    [q EXCEPT !.pc = "done", !.resp = status, !.snap = NoSnap, !.stale = {}]

\* await session.abortTransaction() on an early return, then the response.
AbortAndRespond(q, status) ==
    [Respond(q, status) EXCEPT !.txn = "aborted", !.server = "aborted"]

\* An awaited operation throws: control passes to the catch block.
Throw(q) == [q EXCEPT !.pc = "catch", !.failedAt = q.pc]

\* A handler instance is free before its first request and after it has
\* answered and its transaction has ended on the server.
Free(r) == req[r].pc \in {"idle", "done"} /\ req[r].server /= "open"

\* startSession, validation, the self-transfer check and startTransaction.
Received(a) ==
    IF ~ValidTransferBody(a)
    THEN Respond([Idle EXCEPT !.args = a], "400 Validation failed")
    ELSE IF a.to = a.from
    THEN Respond([Idle EXCEPT !.args = a], "400 Cannot transfer money to yourself")
    ELSE [Idle EXCEPT !.args = a, !.txn = "starting", !.pc = "findSender"]

Receive(r, R, B) ==
    /\ started < MaxReq
    /\ Free(r)
    /\ IF \E q \in R : req[q].pc = "idle"
       THEN req[r].pc = "idle" /\ \A q \in R : q < r => req[q].pc /= "idle"
       ELSE \A q \in R : q < r => ~Free(q)
    /\ started' = started + 1
    /\ \E a \in B :
         /\ a.from \in users
         /\ req' = [req EXCEPT ![r] = Received(a)]
    /\ UNCHANGED <<auth, users, accounts, balance, seed, log, lock, faults, reads,
                   obs, committed,
                   sig, userDoc>>

\* Mutant: a balance check that also refuses an amount equal to the balance.
FoundSenderStrict(q) ==
    IF q.args.from \notin accounts
    THEN AbortAndRespond(q, "404 Sender account not found")
    ELSE IF balance[q.args.from] <= q.args.amount
    THEN AbortAndRespond(q, "400 Insufficient balance")
    ELSE [q EXCEPT !.txn = "in_progress", !.server = "open",
                   !.snap = [accounts |-> accounts, balance |-> balance,
                             users |-> users],
                   !.stale = {},
                   !.pc = "findRecipient"]

\* Account.findOne({userId: req.userId}).session(session): the first
\* operation takes the snapshot; then the sender and balance checks.
FoundSender(q) ==
    IF q.args.from \notin accounts
    THEN AbortAndRespond(q, "404 Sender account not found")
    ELSE IF balance[q.args.from] < q.args.amount
    THEN AbortAndRespond(q, "400 Insufficient balance")
    ELSE [q EXCEPT !.txn = "in_progress", !.server = "open",
                   !.snap = [accounts |-> accounts, balance |-> balance,
                             users |-> users],
                   !.stale = {},
                   !.pc = "findRecipient"]

FindSender(r) ==
    /\ req[r].pc = "findSender"
    /\ req' = [req EXCEPT ![r] = FoundSender(req[r])]
    /\ UNCHANGED <<auth, users, accounts, balance, seed, log, lock, faults, started,
                   reads, obs, committed,
                   sig, userDoc>>

\* Account.findOne({userId: to}).session(session)
FoundRecipient(q) ==
    IF CastObjectId(q.args.to) = CastError
    THEN Throw(q)
    ELSE IF CastObjectId(q.args.to) \notin q.snap.accounts
    THEN AbortAndRespond(q, "404 Recipient account not found")
    ELSE [q EXCEPT !.pc = "findUser"]

FindRecipient(r) ==
    /\ req[r].pc = "findRecipient"
    /\ req' = [req EXCEPT ![r] = FoundRecipient(req[r])]
    /\ UNCHANGED <<auth, users, accounts, balance, seed, log, lock, faults, started,
                   reads, obs, committed,
                   sig, userDoc>>

\* User.findById(to).session(session)
FoundUser(q) ==
    IF CastObjectId(q.args.to) \notin q.snap.users
    THEN AbortAndRespond(q, "404 Recipient user not found")
    ELSE [q EXCEPT !.pc = "debit"]

FindUser(r) ==
    /\ req[r].pc = "findUser"
    /\ req' = [req EXCEPT ![r] = FoundUser(req[r])]
    /\ UNCHANGED <<auth, users, accounts, balance, seed, log, lock, faults, started,
                   reads, obs, committed,
                   sig, userDoc>>

\* The $inc joins the transaction's uncommitted operations.
Written(q, id, delta) ==
    [q EXCEPT !.pend.ops = Append(@, [id |-> id, delta |-> delta])]

\* Mutant: an update that waits for the document while another transaction
\* holds it, instead of failing.
UpdateOneWaiting(r, id, delta, next) ==
    /\ lock[id] \in {NoReq, r}
    /\ IF id \in req[r].stale
       THEN /\ req' = [req EXCEPT ![r] =
                         [Throw(req[r]) EXCEPT !.server = "aborted", !.pend = NoPend]]
            /\ lock' = ReleaseLocks(r)
       ELSE /\ req' = [req EXCEPT ![r] =
                         [Written(req[r], id, delta) EXCEPT !.pc = next]]
            /\ lock' = [lock EXCEPT ![id] = r]

\* Mutant: an update whose error is swallowed, so that the handler goes on
\* to its next operation without the write.
UpdateOneSwallowingError(r, id, delta, next) ==
    IF WriteConflict(r, id)
    THEN /\ req' = [req EXCEPT ![r].pc = next]
         /\ lock' = lock
    ELSE /\ req' = [req EXCEPT ![r] =
                      [Written(req[r], id, delta) EXCEPT !.pc = next]]
         /\ lock' = [lock EXCEPT ![id] = r]

\* Account.updateOne({userId: id}, {$inc: {balance: delta}}).session(session)
\* A write conflict aborts the transaction on the server and throws.
UpdateOne(r, id, delta, next) ==
    IF WriteConflict(r, id)
    THEN /\ req' = [req EXCEPT ![r] =
                      [Throw(req[r]) EXCEPT !.server = "aborted", !.pend = NoPend]]
         /\ lock' = ReleaseLocks(r)
    ELSE /\ req' = [req EXCEPT ![r] =
                      [Written(req[r], id, delta) EXCEPT !.pc = next]]
         /\ lock' = [lock EXCEPT ![id] = r]

Debit(r) ==
    /\ req[r].pc = "debit"
    /\ UpdateOne(r, req[r].args.from, 0 - req[r].args.amount, "credit")
    /\ UNCHANGED <<auth, users, accounts, balance, seed, log, faults, started, reads,
                   obs, committed,
                   sig, userDoc>>

Credit(r) ==
    /\ req[r].pc = "credit"
    /\ UpdateOne(r, CastObjectId(req[r].args.to), req[r].args.amount, "create")
    /\ UNCHANGED <<auth, users, accounts, balance, seed, log, faults, started, reads,
                   obs, committed,
                   sig, userDoc>>

\* Mutant: a record inserted as 'pending', to be completed afterwards.
CreatedPending(q) ==
    [q EXCEPT !.pc = "commit",
              !.pend.recs = Append(@, [fromUserId |-> q.args.from,
                                       toUserId |-> CastObjectId(q.args.to),
                                       amount |-> q.args.amount,
                                       status |-> "pending"])]

\* Transaction.create([{...}], {session})
Created(q) ==
    [q EXCEPT !.pc = "commit",
              !.pend.recs = Append(@, [fromUserId |-> q.args.from,
                                       toUserId |-> CastObjectId(q.args.to),
                                       amount |-> q.args.amount,
                                       status |-> "completed"])]

Create(r) ==
    /\ req[r].pc = "create"
    /\ req' = [req EXCEPT ![r] = Created(req[r])]
    /\ UNCHANGED <<auth, users, accounts, balance, seed, log, lock, faults, started,
                   reads, obs, committed,
                   sig, userDoc>>

\* History: did this step of the request change committed data?
Touched(q) == [q EXCEPT !.touched = @ \/ balance' /= balance \/ log' /= log]

\* The balances after a transaction's $inc operations, in their order.
RECURSIVE ApplyOps(_, _)
ApplyOps(bal, ops) ==
    IF ops = <<>> THEN bal
    ELSE ApplyOps([bal EXCEPT ![Head(ops).id] = Inc(@, Head(ops).delta)], Tail(ops))

WrittenIds(ops) == {ops[i].id : i \in DOMAIN ops}

\* Mutant: a commit that also rewrites the status of the earlier records.
ApplyRewritingRecords(r, after) ==
    /\ balance' = ApplyOps(balance, req[r].pend.ops)
    /\ log' = [i \in DOMAIN log |-> [log[i] EXCEPT !.status = "pending"]]
                 \o req[r].pend.recs
    /\ committed' = committed \cup {balance'}
    /\ lock' = ReleaseLocks(r)
    /\ req' = [q \in Reqs |->
                 IF q = r
                 THEN Touched([after EXCEPT !.server = "committed", !.pend = NoPend])
                 ELSE IF req[q].server = "open"
                 THEN [req[q] EXCEPT !.stale = @ \cup WrittenIds(req[r].pend.ops)]
                 ELSE req[q]]

\* The server commits transaction r: its writes become visible in one step,
\* and every other open transaction's snapshot is now behind on them.
Apply(r, after) ==
    /\ balance' = ApplyOps(balance, req[r].pend.ops)
    /\ log' = log \o req[r].pend.recs
    /\ committed' = committed \cup {balance'}
    /\ lock' = ReleaseLocks(r)
    /\ req' = [q \in Reqs |->
                 IF q = r
                 THEN Touched([after EXCEPT !.server = "committed", !.pend = NoPend])
                 ELSE IF req[q].server = "open"
                 THEN [req[q] EXCEPT !.stale = @ \cup WrittenIds(req[r].pend.ops)]
                 ELSE req[q]]

\* await session.commitTransaction(), then the success response.
Commit(r) ==
    /\ req[r].pc = "commit"
    /\ Apply(r, Respond([req[r] EXCEPT !.txn = "committed"], "200 Transfer successful"))
    /\ UNCHANGED <<auth, users, accounts, seed, faults, started, reads, obs,
                   sig, userDoc>>

\* A read, an update or the insert fails for an infrastructure reason.
OpFails(r) ==
    /\ req[r].pc \in {"findSender", "findRecipient", "findUser", "debit",
                      "credit", "create"}
    /\ faults < MaxFaults
    /\ faults' = faults + 1
    /\ req' = [req EXCEPT ![r] = Throw(req[r])]
    /\ UNCHANGED <<auth, users, accounts, balance, seed, log, lock, started, reads,
                   obs, committed,
                   sig, userDoc>>

\* commitTransaction throws: the driver has moved the transaction to
\* "committed" all the same, and the server may or may not have committed.
CommitFails(r) ==
    /\ req[r].pc = "commit"
    /\ faults < MaxFaults
    /\ faults' = faults + 1
    /\ \E applied \in BOOLEAN :
         IF applied
         THEN Apply(r, [Throw(req[r]) EXCEPT !.txn = "committed"])
         ELSE /\ req' = [req EXCEPT ![r] = [Throw(req[r]) EXCEPT !.txn = "committed"]]
              /\ UNCHANGED <<balance, log, committed, lock>>
    /\ UNCHANGED <<auth, users, accounts, seed, started, reads, obs,
                   sig, userDoc>>

\* Mutant: a catch block whose abortTransaction never throws, so that the
\* 500 response follows a failed commit too.
CaughtAlwaysResponds(q) ==
    [Respond(q, "500 Transfer failed") EXCEPT
        !.txn = IF @ = "committed" THEN @ ELSE "aborted",
        !.server = IF @ = "open" THEN "aborted" ELSE @,
        !.pend = NoPend]

\* Mutant: a catch block that runs the handler's transaction again when the
\* commit has thrown.
CaughtRetrying(q) ==
    IF q.txn \in {"starting", "in_progress"}
    THEN [Respond(q, "500 Transfer failed") EXCEPT
             !.txn = "aborted",
             !.server = IF @ = "open" THEN "aborted" ELSE @,
             !.pend = NoPend]
    ELSE [q EXCEPT !.pc = "findSender", !.txn = "starting", !.pend = NoPend]

\* catch: await session.abortTransaction(); res.status(500); finally
\* endSession.  abortTransaction throws once commitTransaction has been
\* called, and then no response is sent.
Caught(q) ==
    IF q.txn \in {"starting", "in_progress"}
    THEN [Respond(q, "500 Transfer failed") EXCEPT
             !.txn = "aborted",
             !.server = IF @ = "open" THEN "aborted" ELSE @,
             !.pend = NoPend]
    ELSE [q EXCEPT !.pc = "done", !.snap = NoSnap, !.stale = {}]

Catch(r) ==
    /\ req[r].pc = "catch"
    /\ req' = [req EXCEPT ![r] = Caught(req[r])]
    /\ lock' = IF req[r].txn \in {"starting", "in_progress"}
               THEN ReleaseLocks(r) ELSE lock
    /\ UNCHANGED <<auth, users, accounts, balance, seed, log, faults, started, reads,
                   obs, committed,
                   sig, userDoc>>

\* The server aborts a transaction whose session has ended without a
\* commit or an abort reaching it.
Expire(r) ==
    /\ req[r].pc = "done"
    /\ req[r].server = "open"
    /\ req' = [req EXCEPT ![r].server = "aborted", ![r].pend = NoPend]
    /\ lock' = ReleaseLocks(r)
    /\ UNCHANGED <<auth, users, accounts, balance, seed, log, faults, started, reads,
                   obs, committed,
                   sig, userDoc>>

\* ------------------------------------------------------------- other routes
\* The transactions holding an uncommitted write on account u.
Writers(u) == {r \in Reqs : lock[u] = r}

\* History: this balance read follows a 200 balance read of the same account
\* with no record committed in between.
Repeats(u) ==
    /\ obs.route = "balance"
    /\ obs.account = u
    /\ obs.status = 200
    /\ obs.at = Len(log)

\* Mutant: a read that sees the uncommitted writes of a transaction.
DirtyBalanceResponse(u) ==
    IF u \notin accounts
    THEN [route |-> "balance", pc |-> "done", account |-> u, status |-> 404,
          value |-> 0, during |-> Writers(u), at |-> Len(log),
          again |-> FALSE, before |-> 0]
    ELSE [route |-> "balance", pc |-> "done", account |-> u, status |-> 200,
          value |-> IF lock[u] = NoReq THEN ToFixed2(balance[u])
                    ELSE ToFixed2(ApplyOps(balance, req[lock[u]].pend.ops)[u]),
          during |-> Writers(u), at |-> Len(log),
          again |-> Repeats(u), before |-> IF Repeats(u) THEN obs.value ELSE 0]

\* GET /account/balance: a read outside any transaction sees committed data.
\* `during`, `at`, `again` and `before` are history: the transfers writing
\* the account at that moment, the number of committed records, and the
\* previous response when this read repeats it.
BalanceResponse(u) ==
    IF u \notin accounts
    THEN [route |-> "balance", pc |-> "done", account |-> u, status |-> 404,
          value |-> 0, during |-> Writers(u), at |-> Len(log),
          again |-> FALSE, before |-> 0]
    ELSE [route |-> "balance", pc |-> "done", account |-> u, status |-> 200,
          value |-> ToFixed2(balance[u]),
          during |-> Writers(u), at |-> Len(log),
          again |-> Repeats(u), before |-> IF Repeats(u) THEN obs.value ELSE 0]

\* A read request arrives when no other read is between its two queries.
ReadArrives ==
    /\ reads < MaxReads
    /\ obs.pc = "done"
    /\ reads' = reads + 1

GetBalance(u) ==
    /\ ReadArrives
    /\ obs' = BalanceResponse(u)
    /\ UNCHANGED <<auth, users, accounts, balance, seed, log, lock, req, faults,
                   started, committed, sig, userDoc>>

\* Mutant: a filter on the sender alone.
InvolvingAsSender(u) ==
    LET mine == SelectSeq(log, LAMBDA t : t.fromUserId = u)
    IN  [i \in 1..Len(mine) |-> mine[Len(mine) + 1 - i]]

\* The records that name u as sender or recipient, newest first.  Two
\* transfers that name the same user write that user's account, so their
\* transactions cannot overlap and their records are created (createdAt)
\* in the order they commit.
Involving(u) ==
    LET mine == SelectSeq(log, LAMBDA t : t.fromUserId = u \/ t.toUserId = u)
    IN  [i \in 1..Len(mine) |-> mine[Len(mine) + 1 - i]]

\* .skip(skip).limit(limit)
Page(s, skip, limit) ==
    IF skip >= Len(s) THEN <<>>
    ELSE SubSeq(s, skip + 1, IF skip + limit < Len(s) THEN skip + limit ELSE Len(s))

\* parseInt(req.query.x) || fallback; 0 stands for an absent parameter.
OrDefault(n, fallback) == IF n = 0 THEN fallback ELSE n

\* formattedTransactions: amount, direction and status of each record.
Formatted(s, u, sent, received) ==
    [i \in 1..Len(s) |->
        [amount |-> s[i].amount,
         type |-> IF s[i].fromUserId = u THEN sent ELSE received,
         status |-> s[i].status]]

\* GET /account/statement, first query: Transaction.find(..).limit(limit)
StatementFind(u, limit) ==
    /\ ReadArrives
    /\ obs' = [route |-> "statement", pc |-> "account", account |-> u,
               status |-> 0, value |-> 0,
               records |-> Formatted(Page(Involving(u), 0,
                                          OrDefault(limit, DefaultStatementLimit)),
                                     u, "debit", "credit")]
    /\ UNCHANGED <<auth, users, accounts, balance, seed, log, lock, req, faults,
                   started, committed, sig, userDoc>>

\* GET /account/statement, second query: Account.findOne, then the response.
StatementAccount ==
    /\ obs.route = "statement"
    /\ obs.pc = "account"
    /\ obs' = [obs EXCEPT !.pc = "done", !.status = 200,
                          !.value = IF obs.account \in accounts
                                    THEN ToFixed2(balance[obs.account]) ELSE 0]
    /\ UNCHANGED <<auth, users, accounts, balance, seed, log, lock, req, faults,
                   started, reads, committed, sig, userDoc>>

\* GET /user/transactions, first query: Transaction.find(..).skip().limit()
\* `at` is history: the number of committed records at that moment.
TransactionsFind(u, page, limit) ==
    /\ ReadArrives
    /\ obs' = [route |-> "transactions", pc |-> "count", account |-> u,
               status |-> 0, value |-> 0,
               at |-> Len(log),
               page |-> OrDefault(page, 1),
               limit |-> OrDefault(limit, DefaultPageLimit),
               total |-> 0, pages |-> 0,
               records |-> Formatted(Page(Involving(u),
                                          (OrDefault(page, 1) - 1)
                                              * OrDefault(limit, DefaultPageLimit),
                                          OrDefault(limit, DefaultPageLimit)),
                                     u, "sent", "received")]
    /\ UNCHANGED <<auth, users, accounts, balance, seed, log, lock, req, faults,
                   started, committed, sig, userDoc>>

\* GET /user/transactions, second query: countDocuments, then the response.
TransactionsCount ==
    /\ obs.route = "transactions"
    /\ obs.pc = "count"
    /\ obs' = [obs EXCEPT !.pc = "done", !.status = 200,
                          !.total = Len(Involving(obs.account)),
                          !.pages = (Len(Involving(obs.account)) + obs.limit - 1)
                                        \div obs.limit]
    /\ UNCHANGED <<auth, users, accounts, balance, seed, log, lock, req, faults,
                   started, reads, committed, sig, userDoc>>

\* GET /user/profile, first query: User.findById
ProfileFind(u) ==
    /\ ReadArrives
    /\ obs' = IF u \notin users
              THEN [route |-> "profile", pc |-> "done", account |-> u,
                    status |-> 404, value |-> 0, firstName |-> ""]
              ELSE [route |-> "profile", pc |-> "account", account |-> u,
                    status |-> 0, value |-> 0,
                    firstName |-> userDoc[u].firstName]
    /\ UNCHANGED <<auth, users, accounts, balance, seed, log, lock, req, faults,
                   started, committed, sig, userDoc>>

\* GET /user/profile, second query: Account.findOne, then the response
\* with the stored balance as it is.
ProfileAccount ==
    /\ obs.route = "profile"
    /\ obs.pc = "account"
    /\ obs' = [obs EXCEPT !.pc = "done", !.status = 200,
                          !.value = IF obs.account \in accounts
                                    THEN balance[obs.account] ELSE 0]
    /\ UNCHANGED <<auth, users, accounts, balance, seed, log, lock, req, faults,
                   started, reads, committed, sig, userDoc>>

\* GET /user/search: the other users whose names match the filter; a filter
\* shorter than two characters answers an empty list without a query.
Search(u, filter) ==
    /\ ReadArrives
    /\ obs' = [route |-> "search", pc |-> "done", account |-> u,
               status |-> 200, value |-> 0,
               found |-> IF filter = "" THEN {}
                         ELSE {v \in users \ {u} : userDoc[v].username = filter}]
    /\ UNCHANGED <<auth, users, accounts, balance, seed, log, lock, req, faults,
                   started, committed, sig, userDoc>>

\* PUT /user/profile: User.findByIdAndUpdate(req.userId, updateData); an
\* empty firstName fails the validation.
PutProfile(u, firstName) ==
    /\ userDoc' = IF firstName = "" \/ u \notin users THEN userDoc
                  ELSE [userDoc EXCEPT ![u].firstName = firstName]
    /\ UNCHANGED <<auth, users, accounts, balance, seed, log, lock, req, faults,
                   started, reads, obs, committed, sig>>

\* ------------------------------------------------------------------ signup
\* The users holding a username.
Owners(name) == {u \in users : userDoc[u].username = name}

\* Mutant: a User collection without the unique index on username.
DuplicateKeyNoIndex(name) == FALSE

\* userSchema.username unique: an insert of a taken username is refused.
DuplicateKey(name) == Owners(name) /= {}

\* The _id of the next User document.
FreshId == IF NewIds[1] \notin users THEN NewIds[1] ELSE NewIds[2]

SignupAnswer(q, status) == [q EXCEPT !.pc = "done", !.resp = status]

\* The catch block: 500 'Internal server error'.
SignupCaught(q) ==
    [SignupAnswer(q, "500 Internal server error") EXCEPT !.failedAt = q.pc]

\* POST /user/signup: signupBody.safeParse(req.body).  `existed` is
\* history: the username belonged to a user when the request arrived.
SignupReceive(s, B) ==
    /\ sig[s].pc = "idle"
    /\ \A q \in Sigs : q < s => sig[q].pc /= "idle"
    /\ \E b \in B :
         sig' = [sig EXCEPT ![s] =
                   IF ~b.valid
                   THEN SignupAnswer([SigIdle EXCEPT !.username = b.username],
                                     "400 Validation failed")
                   ELSE [SigIdle EXCEPT !.username = b.username,
                                        !.existed = Owners(b.username) /= {},
                                        !.pc = "findOne"]]
    /\ UNCHANGED <<auth, users, accounts, balance, seed, log, lock, req, faults,
                   started, reads, obs, committed, userDoc>>

\* User.findOne({ username }), the 409 answer, else bcrypt.hash
SignupFindOne(s) ==
    /\ sig[s].pc = "findOne"
    /\ sig' = [sig EXCEPT ![s] =
                 IF Owners(sig[s].username) /= {}
                 THEN SignupAnswer(sig[s], "409 User with this email already exists")
                 ELSE [sig[s] EXCEPT !.pc = "createUser"]]
    /\ UNCHANGED <<auth, users, accounts, balance, seed, log, lock, req, faults,
                   started, reads, obs, committed, userDoc>>

\* User.create({username, password, firstName, lastName})
SignupUser(s) ==
    /\ sig[s].pc = "createUser"
    /\ IF DuplicateKey(sig[s].username)
       THEN /\ sig' = [sig EXCEPT ![s] = SignupCaught(sig[s])]
            /\ UNCHANGED <<users, userDoc>>
       ELSE /\ users' = users \cup {FreshId}
            /\ userDoc' = [userDoc EXCEPT ![FreshId] =
                             [username |-> sig[s].username, firstName |-> "A"]]
            /\ sig' = [sig EXCEPT ![s].pc = "createAccount", ![s].id = FreshId]
    /\ UNCHANGED <<auth, accounts, balance, seed, log, lock, req, faults, started,
                   reads, obs, committed>>

\* Mutant: a signup that also credits a bonus to the oldest account.
SignupAccountWithBonus(s) ==
    /\ sig[s].pc = "createAccount"
    /\ \E b \in SeedValues :
         /\ accounts' = accounts \cup {sig[s].id}
         /\ balance' = [balance EXCEPT ![sig[s].id] = b,
                                       !["u1"] = Inc(@, 100 * Dollar)]
         /\ seed' = [seed EXCEPT ![sig[s].id] = b]
         /\ committed' = committed \cup {balance'}
    /\ sig' = [sig EXCEPT ![s] = SignupAnswer(sig[s], "201 User created successfully")]
    /\ UNCHANGED <<auth, users, log, lock, req, faults, started, reads, obs, userDoc>>

\* Account.create({userId: user._id, balance: 1000 + Math.random() * 9000}),
\* jwt.sign and the 201 answer.
SignupAccount(s) ==
    /\ sig[s].pc = "createAccount"
    /\ \E b \in SeedValues :
         /\ accounts' = accounts \cup {sig[s].id}
         /\ balance' = [balance EXCEPT ![sig[s].id] = b]
         /\ seed' = [seed EXCEPT ![sig[s].id] = b]
         /\ committed' = committed \cup {balance'}
    /\ sig' = [sig EXCEPT ![s] = SignupAnswer(sig[s], "201 User created successfully")]
    /\ UNCHANGED <<auth, users, log, lock, req, faults, started, reads, obs, userDoc>>

\* A query or an insert of the signup fails for an infrastructure reason.
SignupFails(s) ==
    /\ sig[s].pc \in {"findOne", "createUser", "createAccount"}
    /\ faults < MaxFaults
    /\ faults' = faults + 1
    /\ sig' = [sig EXCEPT ![s] = SignupCaught(sig[s])]
    /\ UNCHANGED <<auth, users, accounts, balance, seed, log, lock, req, started,
                   reads, obs, committed, userDoc>>

\* -------------------------------------------------------------- auth store
Backend == <<users, accounts, balance, seed, log, lock, req, faults, started,
             reads, obs, committed, sig, userDoc>>

\* The user a call signs in: signin with u1's credentials, signup as u3.
SignedUser(op) == IF op = "signin" THEN "u1" ELSE "u3"

\* The page is loaded again: the store is created from localStorage and
\* the continuations of the calls in flight never run.
Reload ==
    /\ auth' = [CreateStore(auth.lsToken, auth.lsUser)
                    EXCEPT !.signedOut = auth.signedOut]
    /\ UNCHANGED Backend

\* signup / signin up to the await of the API call.
SignCall(c, op) ==
    /\ auth.call[c].op = "idle"
    /\ auth' = [auth EXCEPT !.isLoading = TRUE,
                            !.call[c] = [NoCall EXCEPT !.op = op]]
    /\ UNCHANGED Backend

\* signup / signin after the API call has answered with token and user.
SignResolve(c) ==
    /\ auth.call[c].op \in {"signup", "signin"}
    /\ LET u == SignedUser(auth.call[c].op)
       IN  auth' = [auth EXCEPT !.lsToken = Token(u),
                                !.lsUser = u,
                                !.user = u,
                                !.token = Token(u),
                                !.isAuthenticated = TRUE,
                                !.isLoading = FALSE,
                                !.signedOut = FALSE,
                                !.call[c] = NoCall]
    /\ UNCHANGED Backend

\* signup / signin, catch block: the call was rejected with a status other
\* than 401, or got no answer.
SignReject(c) ==
    /\ auth.call[c].op \in {"signup", "signin"}
    /\ auth' = [auth EXCEPT !.isLoading = FALSE, !.call[c] = NoCall]
    /\ UNCHANGED Backend

\* signin answered 401 (wrong credentials): the response interceptor of the
\* API client empties localStorage, then the catch block runs.
SigninUnauthorized(c) ==
    /\ auth.call[c].op = "signin"
    /\ auth' = [auth EXCEPT !.lsToken = NoToken,
                            !.lsUser = Null,
                            !.isLoading = FALSE,
                            !.call[c] = NoCall]
    /\ UNCHANGED Backend

\* signout
Signout ==
    /\ auth' = [auth EXCEPT !.lsToken = NoToken,
                            !.lsUser = Null,
                            !.user = Null,
                            !.token = NoToken,
                            !.isAuthenticated = FALSE,
                            !.signedOut = TRUE]
    /\ UNCHANGED Backend

\* validateToken with no token in localStorage; init: called by
\* initializeAuth, which wraps it in isLoading true .. false.
ValidateNoToken(init) ==
    /\ auth.lsToken = NoToken
    /\ auth' = [auth EXCEPT !.isAuthenticated = FALSE,
                            !.isLoading = IF init THEN FALSE ELSE @]
    /\ UNCHANGED Backend

\* validateToken up to the await of getProfile; the request interceptor
\* sends the token localStorage holds at that moment.
ValidateCall(c, init) ==
    /\ auth.lsToken /= NoToken
    /\ auth.call[c].op = "idle"
    /\ auth' = [auth EXCEPT !.isLoading = IF init THEN TRUE ELSE @,
                            !.call[c] = [op |-> "validate", init |-> init,
                                         sent |-> auth.lsToken]]
    /\ UNCHANGED Backend

\* validateToken after getProfile has answered 200 for the token sent.
ValidateResolve(c) ==
    /\ auth.call[c].op = "validate"
    /\ auth' = [auth EXCEPT !.lsUser = auth.call[c].sent.userId,
                            !.user = auth.call[c].sent.userId,
                            !.isAuthenticated = TRUE,
                            !.isLoading = IF auth.call[c].init THEN FALSE ELSE @,
                            !.call[c] = NoCall]
    /\ UNCHANGED Backend

\* validateToken, catch block: getProfile was rejected (the token has
\* expired, or the call failed for any other reason).
ValidateReject(c) ==
    /\ auth.call[c].op = "validate"
    /\ auth' = [auth EXCEPT !.lsToken = NoToken,
                            !.lsUser = Null,
                            !.user = Null,
                            !.token = NoToken,
                            !.isAuthenticated = FALSE,
                            !.isLoading = IF auth.call[c].init THEN FALSE ELSE @,
                            !.call[c] = NoCall]
    /\ UNCHANGED Backend

SignupBody(username, valid) == [username |-> username, valid |-> valid]

\* The signup of carol, who becomes u3.
LedgerSignups == {SignupBody("carol", TRUE)}

\* Bodies among u1, u2 and the newcomer u3.
LedgerBodies ==
    {Body("u1", "u2", 1, 0), Body("u1", "u3", 600 * Dollar, 0),
     Body("u3", "u1", 600 * Dollar, 0), Body("u3", "u2", 1, 0)}

\* Bodies for transfers that a balance read runs beside.
ReadBodies ==
    {Body("u1", "u2", 600 * Dollar, 0), Body("u2", "u1", 1, 0),
     Body("u1", Ghost, 600 * Dollar, 0)}

MainReqs == {1, 2}

Next ==
    \/ \E r \in MainReqs : Receive(r, MainReqs, TransferBodies)
    \/ \E r \in MainReqs : FindSender(r)
    \/ \E r \in MainReqs : FindRecipient(r)
    \/ \E r \in MainReqs : FindUser(r)
    \/ \E r \in MainReqs : Debit(r)
    \/ \E r \in MainReqs : Credit(r)
    \/ \E r \in MainReqs : Create(r)
    \/ \E r \in MainReqs : Commit(r)
    \/ \E r \in MainReqs : OpFails(r)
    \/ \E r \in MainReqs : CommitFails(r)
    \/ \E r \in MainReqs : Catch(r)
    \/ \E r \in MainReqs : Expire(r)

Spec == Init /\ [][Next]_vars

\* Signups beside transfers.
NextLedger ==
    \/ \E r \in MainReqs : Receive(r, MainReqs, LedgerBodies)
    \/ \E r \in MainReqs : FindSender(r)
    \/ \E r \in MainReqs : FindRecipient(r)
    \/ \E r \in MainReqs : FindUser(r)
    \/ \E r \in MainReqs : Debit(r)
    \/ \E r \in MainReqs : Credit(r)
    \/ \E r \in MainReqs : Create(r)
    \/ \E r \in MainReqs : Commit(r)
    \/ \E r \in MainReqs : Catch(r)
    \/ SignupReceive(1, LedgerSignups)
    \/ SignupFindOne(1)
    \/ SignupUser(1)
    \/ SignupAccount(1)

SpecLedger == Init /\ [][NextLedger]_vars

\* Balance reads beside transfers.
NextRead ==
    \/ \E r \in MainReqs : Receive(r, MainReqs, ReadBodies)
    \/ \E r \in MainReqs : FindSender(r)
    \/ \E r \in MainReqs : FindRecipient(r)
    \/ \E r \in MainReqs : FindUser(r)
    \/ \E r \in MainReqs : Debit(r)
    \/ \E r \in MainReqs : Credit(r)
    \/ \E r \in MainReqs : Create(r)
    \/ \E r \in MainReqs : Commit(r)
    \/ \E r \in MainReqs : OpFails(r)
    \/ \E r \in MainReqs : CommitFails(r)
    \/ \E r \in MainReqs : Catch(r)
    \/ \E r \in MainReqs : Expire(r)
    \/ \E u \in users : GetBalance(u)

SpecRead == Init /\ [][NextRead]_vars

\* The double-spend race: two transfers of `a` from u1, whose balance B
\* covers one of them and not both, to u2 and to u3, already received.
RaceCases ==
    {<<SeedMin * Dollar, 600 * Dollar>>,
     <<SeedMin * Dollar, SeedMin * Dollar>>,
     <<SeedMin * Dollar, 600 * Dollar + 1>>}

RaceReqs == {1, 2}

InitRace ==
    \E c \in RaceCases :
        /\ users = {"u1", "u2", "u3"}
        /\ accounts = users
        /\ seed = [u \in Ids |-> IF u = "u1" THEN c[1]
                                  ELSE IF u \in {"u2", "u3"} THEN 5 * SeedMin * Dollar
                                  ELSE 0]
        /\ balance = seed
        /\ committed = {seed}
        /\ log = <<>>
        /\ lock = [u \in Ids |-> NoReq]
        /\ faults = 0
        /\ reads = 0
        /\ obs = NoObs
        /\ userDoc = Docs(users)
        /\ sig = [s \in Sigs |-> SigIdle]
        /\ auth = CreateStore(NoToken, Null)
        /\ started = Cardinality(RaceReqs)
        /\ req = [r \in Reqs |->
                    IF r = 1 THEN Received(Body("u1", "u2", c[2], 0))
                    ELSE IF r = 2 THEN Received(Body("u1", "u3", c[2], 0))
                    ELSE Idle]

NextRace ==
    \/ \E r \in RaceReqs : FindSender(r)
    \/ \E r \in RaceReqs : FindRecipient(r)
    \/ \E r \in RaceReqs : FindUser(r)
    \/ \E r \in RaceReqs : Debit(r)
    \/ \E r \in RaceReqs : Credit(r)
    \/ \E r \in RaceReqs : Create(r)
    \/ \E r \in RaceReqs : Commit(r)
    \/ \E r \in RaceReqs : Catch(r)

SpecRace == InitRace /\ [][NextRace]_vars

\* N transfers of one rupee each from u1, whose balance is SerialK rupees
\* (u1 has sent the rest of its seed to u2 before), to N distinct
\* recipients, already received.
SerialK == 2

SerialRecipient(r) == CASE r = 1 -> "u2" [] r = 2 -> "u3" [] r = 3 -> "u4"

InitSerial ==
    /\ users = Ids
    /\ accounts = Ids
    /\ seed = [u \in Ids |-> SeedMin * Dollar]
    /\ balance = [seed EXCEPT !["u1"] = SerialK * Dollar,
                              !["u2"] = (2 * SeedMin - SerialK) * Dollar]
    /\ committed = {seed, balance}
    /\ log = <<[fromUserId |-> "u1", toUserId |-> "u2",
                amount |-> (SeedMin - SerialK) * Dollar, status |-> "completed"]>>
    /\ lock = [u \in Ids |-> NoReq]
    /\ faults = 0
    /\ reads = 0
    /\ obs = NoObs
    /\ userDoc = Docs(users)
    /\ sig = [s \in Sigs |-> SigIdle]
    /\ auth = CreateStore(NoToken, Null)
    /\ started = Cardinality(Reqs)
    /\ req = [r \in Reqs |-> Received(Body("u1", SerialRecipient(r), Dollar, 0))]

NextSerial ==
    \/ \E r \in Reqs : FindSender(r)
    \/ \E r \in Reqs : FindRecipient(r)
    \/ \E r \in Reqs : FindUser(r)
    \/ \E r \in Reqs : Debit(r)
    \/ \E r \in Reqs : Credit(r)
    \/ \E r \in Reqs : Create(r)
    \/ \E r \in Reqs : Commit(r)
    \/ \E r \in Reqs : Catch(r)

SpecSerial == InitSerial /\ [][NextSerial]_vars

\* Signups alone: two handler instances, for a new username, for a second
\* new username, for a taken one, and with an invalid body.
SignupBodies ==
    {SignupBody("carol", TRUE), SignupBody("dave", TRUE),
     SignupBody("alice", TRUE), SignupBody("carol", FALSE)}

NextSignup ==
    \/ \E s \in Sigs : SignupReceive(s, SignupBodies)
    \/ \E s \in Sigs : SignupFindOne(s)
    \/ \E s \in Sigs : SignupUser(s)
    \/ \E s \in Sigs : SignupAccount(s)
    \/ \E s \in Sigs : SignupFails(s)

SpecSignup == Init /\ [][NextSignup]_vars

\* Every route: transfers one after another, a signup, the read routes and
\* the profile update.
RouteBodies == {Body("u1", "u2", 300 * Dollar, 0), Body("u2", "u1", 200 * Dollar, 0)}
RouteReqs == {1}
Limits == {0, 1}
Pages == {0, 2}
Filters == {"", "bob"}
FirstNames == {"", "B"}

NextRoutes ==
    \/ Receive(1, RouteReqs, RouteBodies)
    \/ FindSender(1)
    \/ FindRecipient(1)
    \/ FindUser(1)
    \/ Debit(1)
    \/ Credit(1)
    \/ Create(1)
    \/ Commit(1)
    \/ SignupReceive(1, LedgerSignups)
    \/ SignupFindOne(1)
    \/ SignupUser(1)
    \/ SignupAccount(1)
    \/ \E u \in users \ {"u2"} : GetBalance(u)
    \/ \E u \in users \ {"u2"}, limit \in Limits : StatementFind(u, limit)
    \/ StatementAccount
    \/ \E u \in users \ {"u2"}, page \in Pages, limit \in Limits :
          TransactionsFind(u, page, limit)
    \/ TransactionsCount
    \/ \E u \in users \ {"u2"} : ProfileFind(u)
    \/ ProfileAccount
    \/ \E u \in users \ {"u2"}, filter \in Filters : Search(u, filter)
    \/ \E firstName \in FirstNames : PutProfile("u1", firstName)

SpecRoutes == Init /\ [][NextRoutes]_vars

\* Transfers one at a time between u1 (balance 1000) and u2 (balance 500:
\* seeded with 1000, u2 has sent 500 to u3).
SeqBodies ==
    {Body("u1", "u2", 300 * Dollar, 0), Body("u1", "u2", 700 * Dollar, 0),
     Body("u1", "u2", SeedMin * Dollar, 0), Body("u1", "u2", SeedMin * Dollar + 1, 0),
     Body("u2", "u1", 500 * Dollar, 0), Body("u2", "u1", 1, 0),
     Body("u2", "u1", 501 * Dollar, 0)}

InitSeq ==
    /\ users = {"u1", "u2", "u3"}
    /\ accounts = users
    /\ seed = [u \in Ids |-> IF u \in users THEN SeedMin * Dollar ELSE 0]
    /\ balance = [seed EXCEPT !["u2"] = 500 * Dollar,
                              !["u3"] = (SeedMin + 500) * Dollar]
    /\ committed = {seed, balance}
    /\ log = <<[fromUserId |-> "u2", toUserId |-> "u3",
                amount |-> 500 * Dollar, status |-> "completed"]>>
    /\ lock = [u \in Ids |-> NoReq]
    /\ faults = 0
    /\ reads = 0
    /\ obs = NoObs
    /\ userDoc = Docs(users)
    /\ sig = [s \in Sigs |-> SigIdle]
    /\ auth = CreateStore(NoToken, Null)
    /\ started = 0
    /\ req = [r \in Reqs |-> Idle]

\* A request arrives while no other transfer is in progress.
ReceiveAlone(r) ==
    /\ \A q \in Reqs : req[q].pc \in {"idle", "done"}
    /\ Receive(r, MainReqs, SeqBodies)

NextSeq ==
    \/ \E r \in MainReqs : ReceiveAlone(r)
    \/ \E r \in MainReqs : FindSender(r)
    \/ \E r \in MainReqs : FindRecipient(r)
    \/ \E r \in MainReqs : FindUser(r)
    \/ \E r \in MainReqs : Debit(r)
    \/ \E r \in MainReqs : Credit(r)
    \/ \E r \in MainReqs : Create(r)
    \/ \E r \in MainReqs : Commit(r)

SpecSeq == InitSeq /\ [][NextSeq]_vars

\* Two transfers over disjoint pairs of accounts, u1 to u2 and u3 to u4,
\* already received: each amount is covered, a fraction, or not covered.
DisjointAmounts == {600 * Dollar, 1, SeedMin * Dollar + 1}

DisjointReqs == {1, 2}

InitDisjoint ==
    \E a1 \in DisjointAmounts, a2 \in DisjointAmounts :
        /\ users = Ids
        /\ accounts = Ids
        /\ seed = [u \in Ids |-> SeedMin * Dollar]
        /\ balance = seed
        /\ committed = {seed}
        /\ log = <<>>
        /\ lock = [u \in Ids |-> NoReq]
        /\ faults = 0
        /\ reads = 0
        /\ obs = NoObs
        /\ userDoc = Docs(users)
        /\ sig = [s \in Sigs |-> SigIdle]
        /\ auth = CreateStore(NoToken, Null)
        /\ started = Cardinality(DisjointReqs)
        /\ req = [r \in Reqs |->
                    IF r = 1 THEN Received(Body("u1", "u2", a1, 0))
                    ELSE IF r = 2 THEN Received(Body("u3", "u4", a2, 0))
                    ELSE Idle]

NextDisjoint ==
    \/ \E r \in DisjointReqs : FindSender(r)
    \/ \E r \in DisjointReqs : FindRecipient(r)
    \/ \E r \in DisjointReqs : FindUser(r)
    \/ \E r \in DisjointReqs : Debit(r)
    \/ \E r \in DisjointReqs : Credit(r)
    \/ \E r \in DisjointReqs : Create(r)
    \/ \E r \in DisjointReqs : Commit(r)

SpecDisjoint == InitDisjoint /\ [][NextDisjoint]_vars

\* Two transfers in opposite directions between u1 and u2, already
\* received; every handler that can take a step eventually takes one.
OppositeAmounts == {600 * Dollar, 1}

OppositeReqs == {1, 2}

InitOpposite ==
    \E a1 \in OppositeAmounts, a2 \in OppositeAmounts :
        /\ InitStore(SeedMin * Dollar, SeedMin * Dollar)
        /\ started = Cardinality(OppositeReqs)
        /\ req = [r \in Reqs |->
                    IF r = 1 THEN Received(Body("u1", "u2", a1, 0))
                    ELSE IF r = 2 THEN Received(Body("u2", "u1", a2, 0))
                    ELSE Idle]

\* The next step of the handler instance r.
Step(r) ==
    \/ FindSender(r)
    \/ FindRecipient(r)
    \/ FindUser(r)
    \/ Debit(r)
    \/ Credit(r)
    \/ Create(r)
    \/ Commit(r)
    \/ Catch(r)

NextOpposite == \E r \in OppositeReqs : Step(r)

SpecOpposite ==
    /\ InitOpposite
    /\ [][NextOpposite]_vars
    /\ \A r \in OppositeReqs : WF_vars(Step(r))

\* The auth store alone, its API calls answered in any order.
NextAuth ==
    \/ Reload
    \/ \E c \in AuthCalls, op \in {"signup", "signin"} : SignCall(c, op)
    \/ \E c \in AuthCalls : SignResolve(c)
    \/ \E c \in AuthCalls : SignReject(c)
    \/ \E c \in AuthCalls : SigninUnauthorized(c)
    \/ Signout
    \/ \E init \in BOOLEAN : ValidateNoToken(init)
    \/ \E c \in AuthCalls, init \in BOOLEAN : ValidateCall(c, init)
    \/ \E c \in AuthCalls : ValidateResolve(c)
    \/ \E c \in AuthCalls : ValidateReject(c)

SpecAuth == Init /\ [][NextAuth]_vars

\* ------------------------------------------------------------ properties
RECURSIVE SumAmounts(_, _, _)
\* The sum of the amounts of the records whose field f names account u.
SumAmounts(recs, f, u) ==
    IF recs = <<>> THEN 0
    ELSE (IF Head(recs)[f] = u THEN Head(recs).amount ELSE 0)
         + SumAmounts(Tail(recs), f, u)

RECURSIVE SumOver(_, _)
SumOver(f, S) ==
    IF S = {} THEN 0
    ELSE LET u == CHOOSE x \in S : TRUE IN f[u] + SumOver(f, S \ {u})

Success == "200 Transfer successful"
FailResponses == {"400 Insufficient balance", "404 Sender account not found",
                  "404 Recipient account not found",
                  "404 Recipient user not found", "500 Transfer failed"}

\* The request r answers with `status` in this step.
Answers(r, status) == req[r].resp = "none" /\ req'[r].resp = status

\* C1: under any interleaving of concurrent transfers, no account's
\* committed balance is ever negative.
C1_NoNegativeBalance == \A u \in accounts : balance[u] >= 0

\* C1 witness: two transfers from one sender both passed the balance check
\* on the same balance, one has committed, and the other one's debit, which
\* that balance no longer covers, has been refused.
C1_Witness ==
    \E r \in Reqs, q \in Reqs :
        /\ r /= q
        /\ faults = 0
        /\ req[r].resp = Success
        /\ req[q].pc = "catch" /\ req[q].failedAt = "debit"
        /\ req[q].args.from = req[r].args.from
        /\ balance[req[q].args.from] < req[q].args.amount

\* C2: a transfer that answers success has decreased the sender's balance
\* by exactly the amount and increased the recipient's by exactly the
\* amount, so that the two balances sum to what they did before.
C2_SuccessMovesExactlyAmount ==
    [][\A r \in Reqs :
         Answers(r, Success) =>
            LET from == req[r].args.from
                to == CastObjectId(req[r].args.to)
                amount == req[r].args.amount
            IN  /\ balance'[from] = balance[from] - amount
                /\ balance'[to] = balance[to] + amount
                /\ balance'[from] + balance'[to] = balance[from] + balance[to]]_vars

\* C3: the balances of all accounts sum to the balances the accounts were
\* seeded with, whatever signups and transfers have run.
C3_ClosedLedger == SumOver(balance, accounts) = SumOver(seed, accounts)

C5_BalanceMatchesLog ==
    \A u \in accounts :
        balance[u] = seed[u] - SumAmounts(log, "fromUserId", u)
                             + SumAmounts(log, "toUserId", u)

Done(R) == \A r \in R : req[r].pc = "done"
With(R, status) == {r \in R : req[r].resp = status}

\* C6: once both transfers of the race have ended, exactly one has
\* succeeded and the sender's balance is B - a.
C6_ExactlyOneSucceeds ==
    Done(RaceReqs) =>
        /\ Cardinality(With(RaceReqs, Success)) = 1
        /\ balance["u1"] = seed["u1"] - req[1].args.amount

\* C6 witness: the two transfers overlapped (the loser had passed the
\* balance check and its debit was refused), and both have ended.
C6_Witness ==
    /\ Done(RaceReqs)
    /\ \E r \in RaceReqs : req[r].resp = Success
    /\ \E r \in RaceReqs : req[r].failedAt = "debit"

\* C7: in the race, the transfer that did not succeed has answered
\* 400 'Insufficient balance'.
C7_LoserGetsInsufficientFunds ==
    \A r \in RaceReqs :
        (req[r].pc = "done" /\ req[r].resp /= Success)
            => req[r].resp = "400 Insufficient balance"

\* C8: once all N transfers of one rupee have ended, exactly K have
\* succeeded, exactly N - K have answered 400 'Insufficient balance', and
\* the sender's balance is 0.
C8_ExactlyKSucceed ==
    Done(Reqs) =>
        /\ Cardinality(With(Reqs, Success)) = SerialK
        /\ Cardinality(With(Reqs, "400 Insufficient balance"))
              = Cardinality(Reqs) - SerialK
        /\ balance["u1"] = 0

\* C9: a balance read answers with a committed balance of the account
\* (rounded to hundredths, as the route formats it): never a balance
\* that only exists inside a transfer in flight or an aborted one.
C9_ReadSeesCommitted ==
    obs.status = 200 =>
        \E b \in committed : obs.value = ToFixed2(b[obs.account])

\* C9 witness: the read ran while a transfer's debit of the account was
\* pending, answered the balance from before the transfer, and the
\* transfer has since committed.
C9_Witness ==
    /\ obs.status = 200
    /\ obs.value = ToFixed2(seed[obs.account])
    /\ \E r \in obs.during :
          /\ req[r].resp = Success
          /\ balance[obs.account] /= seed[obs.account]

\* C10: a request whose amount is not positive or above the ceiling, whose
\* recipient is empty or whose description is longer than 200 characters
\* is answered 400 'Validation failed' with no transaction started, nothing
\* read and nothing written.
C10_InvalidRejectedBeforeTransaction ==
    \A r \in Reqs :
        (/\ req[r].pc /= "idle"
         /\ \/ req[r].args.amount <= 0
            \/ req[r].args.amount > AmountCeiling * Dollar
            \/ req[r].args.to = ""
            \/ req[r].args.descLen > MaxDescription)
        => /\ req[r].resp = "400 Validation failed"
           /\ req[r].pc = "done"
           /\ req[r].txn = "none"
           /\ req[r].server = "none"
           /\ req[r].snap = NoSnap
           /\ req[r].pend = NoPend
           /\ ~req[r].touched

\* C10 witness: a request above the ceiling has been rejected while another
\* transfer has committed.
C10_Witness ==
    \E r \in Reqs, q \in Reqs :
        /\ req[r].resp = "400 Validation failed"
        /\ req[r].args.amount > AmountCeiling * Dollar
        /\ req[q].resp = Success

\* C11: no transaction record has the same account as sender and as
\* recipient.
C11_NoSelfTransferRecord ==
    \A i \in DOMAIN log : log[i].fromUserId /= log[i].toUserId

\* C12: with no infrastructure failure, a valid transfer to a recipient id
\* that no account holds, which has got as far as the recipient lookup, has
\* answered 404 'Recipient account not found' and has changed nothing.
C12_UnknownRecipientNotFound ==
    \A r \in Reqs :
        (/\ faults = 0
         /\ req[r].pc = "done"
         /\ ValidTransferBody(req[r].args)
         /\ req[r].args.to /= req[r].args.from
         /\ CastObjectId(req[r].args.to) \notin accounts
         /\ req[r].resp /= "400 Insufficient balance")
        => /\ req[r].resp = "404 Recipient account not found"
           /\ ~req[r].touched

\* The record a transfer with the request body a appends.
RecordOf(a) ==
    [fromUserId |-> a.from, toUserId |-> CastObjectId(a.to),
     amount |-> a.amount, status |-> "completed"]

\* C13: with one transfer at a time, a valid transfer between two distinct
\* existing accounts answers success exactly when the sender's balance is
\* at least the amount, and then appends exactly one record with that
\* amount; an amount equal to the balance leaves the sender at 0; 300 from
\* 1000 to 500 leaves 700 and 800; a greater amount answers 400
\* 'Insufficient balance' with the balances and the records unchanged.
C13_SucceedsIffCovered ==
    /\ [](\A r \in Reqs : req[r].pc /= "catch")
    /\ [][\A r \in Reqs :
            (/\ req[r].resp = "none"
             /\ req'[r].resp /= "none"
             /\ ValidTransferBody(req'[r].args)
             /\ req'[r].args.from \in accounts
             /\ CastObjectId(req'[r].args.to) \in accounts \ {req'[r].args.from})
            => LET a == req'[r].args
                   to == CastObjectId(a.to)
               IN  IF balance[a.from] >= a.amount
                   THEN /\ req'[r].resp = Success
                        /\ log' = Append(log, RecordOf(a))
                        /\ a.amount = balance[a.from] => balance'[a.from] = 0
                        /\ (/\ balance[a.from] = 1000 * Dollar
                            /\ balance[to] = 500 * Dollar
                            /\ a.amount = 300 * Dollar)
                           => /\ balance'[a.from] = 700 * Dollar
                              /\ balance'[to] = 800 * Dollar
                   ELSE /\ req'[r].resp = "400 Insufficient balance"
                        /\ balance' = balance
                        /\ log' = log]_vars

\* C13 witness: a transfer of the sender's whole balance has succeeded and
\* left it at 0, and the sender's next transfer has been refused.
C13_Witness ==
    \E r \in Reqs, q \in Reqs :
        /\ req[r].resp = Success
        /\ req[r].args.amount = SeedMin * Dollar
        /\ balance[req[r].args.from] = 0
        /\ req[q].resp = "400 Insufficient balance"
        /\ req[q].args.from = req[r].args.from
        /\ Len(log) = 2

\* C14: every step leaves the committed records as they are and at most
\* appends to them.
C14_AppendOnlyLog ==
    [][/\ Len(log') >= Len(log)
       /\ SubSeq(log', 1, Len(log)) = log]_vars

\* C14 witness: two transfers have committed, a signup has created an
\* account, the profile has been updated and the history has been read.
C14_Witness ==
    /\ Len(log) = 2
    /\ "u3" \in accounts
    /\ userDoc["u1"].firstName = "B"
    /\ obs.route = "transactions"
    /\ obs.status = 200
    /\ obs.total = 2

\* C15: every user has an account and every account has a user.
C15_OneAccountPerUser == users = accounts

\* C16: a signup for a username that belonged to a user when it arrived has
\* answered 409 and created nothing; a 409 is only given for a taken
\* username; no username belongs to two users, also after two signups for
\* it ran side by side; the balances of the existing accounts are as before.
C16_DuplicateSignupRefused ==
    /\ \A s \in Sigs :
         /\ (sig[s].existed /\ sig[s].pc = "done" /\ sig[s].failedAt = "none")
               => sig[s].resp = "409 User with this email already exists"
         /\ sig[s].resp = "409 User with this email already exists"
               => sig[s].id = "" /\ Owners(sig[s].username) /= {}
    /\ \A u \in users, v \in users :
         userDoc[u].username = userDoc[v].username => u = v
    /\ \A s \in Sigs, t \in Sigs :
         (s /= t /\ sig[s].username = sig[t].username)
            => sig[s].id = "" \/ sig[t].id = ""
    /\ \A u \in {"u1", "u2"} : u \in accounts /\ balance[u] = seed[u]

\* C16 witness: two signups for the same new username ran side by side; one
\* has answered 201 and the other's insert was refused.
C16_Witness ==
    \E s \in Sigs, t \in Sigs :
        /\ sig[s].username = sig[t].username
        /\ sig[s].resp = "201 User created successfully"
        /\ sig[t].failedAt = "createUser"
        /\ sig[t].pc = "done"
        /\ faults = 0

\* C17: every account was created with a balance between 1000 and 10000,
\* and a signup that answered 201 has created its user and its account.
C17_SeedInRange ==
    /\ \A u \in accounts :
         /\ seed[u] >= SeedMin * Dollar
         /\ seed[u] <= (SeedMin + SeedSpan) * Dollar
    /\ \A s \in Sigs :
         sig[s].resp = "201 User created successfully"
            => /\ sig[s].id \in users
               /\ sig[s].id \in accounts
               /\ balance[sig[s].id] = seed[sig[s].id]

\* C17 witness: a signup has answered 201 with a balance that has a
\* fraction.
C17_Witness ==
    \E s \in Sigs :
        /\ sig[s].resp = "201 User created successfully"
        /\ seed[sig[s].id] > SeedMin * Dollar
        /\ seed[sig[s].id] % Dollar /= 0

\* The step belongs to a read route.
ReadStep == obs' /= obs \/ reads' /= reads

\* C18: a step of a read route changes no balance, no record, no account
\* and no user; a balance read that follows a balance read of the same
\* account with nothing committed in between answers the same value; a
\* balance read for a caller without an account answers 404.
C18_ReadsChangeNothing ==
    /\ [](obs.route = "balance" =>
            /\ obs.again => (obs.status = 200 /\ obs.value = obs.before)
            /\ obs.status \in {200, 404})
    /\ [][ReadStep =>
            /\ UNCHANGED <<users, accounts, balance, seed, log, committed,
                           userDoc, lock, req, sig>>
            /\ obs'.route = "balance"
                 => (obs'.status = 404 <=> obs'.account \notin accounts)]_vars

\* C18 witness: the same balance was read twice while a transfer's debit of
\* the account was pending, and a read for a user whose account does not
\* exist yet can follow.
C18_Witness ==
    /\ obs.route = "balance"
    /\ obs.again
    /\ obs.during /= {}
    /\ reads = 2
    /\ \E u \in users : u \notin accounts

\* C19: with no infrastructure failure, a valid transfer to a well-formed
\* recipient id that has no account has answered 404 'Recipient account not
\* found', whatever the sender's balance.
C19_RecipientCheckedBeforeFunds ==
    \A r \in Reqs :
        (/\ faults = 0
         /\ req[r].pc = "done"
         /\ ValidTransferBody(req[r].args)
         /\ req[r].args.from \in accounts
         /\ req[r].args.to \in Ids \ accounts)
        => req[r].resp = "404 Recipient account not found"

\* C20: a transfer's uncommitted writes are nothing, its debit, or its debit
\* followed by its credit; it issues the credit only with the debit issued
\* and the balance check passed; and the committed balances change only by
\* a transfer's debit and credit together with its record.
C20_DebitBeforeCredit ==
    /\ [](\A r \in Reqs :
            LET a == req[r].args
                debit == [id |-> a.from, delta |-> 0 - a.amount]
                credit == [id |-> CastObjectId(a.to), delta |-> a.amount]
            IN  /\ req[r].pend.ops \in {<<>>, <<debit>>, <<debit, credit>>}
                /\ req[r].pc = "credit"
                     => /\ req[r].pend.ops = <<debit>>
                        /\ req[r].snap.balance[a.from] >= a.amount
                /\ req[r].pc \in {"create", "commit"}
                     => req[r].pend.ops = <<debit, credit>>)
    /\ [][balance' /= balance =>
            \E r \in Reqs :
                /\ Len(req[r].pend.ops) = 2
                /\ balance' = ApplyOps(balance, req[r].pend.ops)
                /\ log' = Append(log, RecordOf(req[r].args))]_vars

\* C20 witness: one transfer has committed its debit and credit; another,
\* whose debit was refused, has answered 500, and the one record is the
\* first transfer's.
C20_Witness ==
    \E r \in Reqs, q \in Reqs :
        /\ req[r].resp = Success
        /\ req[q].resp = "500 Transfer failed"
        /\ req[q].failedAt = "debit"
        /\ faults = 0
        /\ log = <<RecordOf(req[r].args)>>

\* C21: a transfer that has left its handler has no transaction open on the
\* server: the transaction was never started, has committed or has aborted,
\* none of its writes is pending and it holds no document.
C21_UnitOfWorkCompletes ==
    \A r \in Reqs :
        req[r].pc = "done" =>
            /\ req[r].txn \in {"none", "committed", "aborted"}
            /\ req[r].server \in {"none", "committed", "aborted"}
            /\ req[r].pend = NoPend
            /\ \A u \in Ids : lock[u] /= r

\* The server commits the transaction of request r in this step.
Commits(r) == req[r].server = "open" /\ req'[r].server = "committed"

\* C24: a request issues at most one debit, one credit and one insert; the
\* records grow by one record at a time, in the step that commits a request
\* which had committed nothing before; a request that has ended changes
\* nothing any more; and there are never more records than requests.
C24_AtMostOnce ==
    /\ [](/\ Len(log) <= started
          /\ \A r \in Reqs : /\ Len(req[r].pend.ops) <= 2
                             /\ Len(req[r].pend.recs) <= 1)
    /\ [][/\ (log' /= log \/ balance' /= balance) =>
                /\ Len(log') = Len(log) + 1
                /\ \E r \in Reqs : Commits(r) /\ ~req[r].touched
          /\ \A r \in Reqs :
                (req[r].pc = "done" /\ req'[r].pc /= "idle" /\ started' = started)
                   => /\ req'[r].pc = "done"
                      /\ req'[r].resp = req[r].resp
                      /\ req'[r].touched = req[r].touched
                      /\ ~Commits(r)]_vars

\* C24 witness: a request's commit took effect although commitTransaction
\* threw; the request has ended and its one record is the only one.
C24_Witness ==
    \E r \in Reqs :
        /\ req[r].pc = "done"
        /\ req[r].failedAt = "commit"
        /\ req[r].touched
        /\ Len(log) = 1
        /\ started = MaxReq

\* C25: with no infrastructure failure injected, a transfer answers 500
\* 'Transfer failed' only for an error raised by its writes, after the
\* sender, balance and recipient checks have passed.
C25_TransferFailedOnlyAfterChecks ==
    \A r \in Reqs :
        (faults = 0 /\ req[r].resp = "500 Transfer failed")
            => req[r].failedAt \in {"debit", "credit", "create"}

\* C26: every record, committed or pending in a transaction, has status
\* 'completed'.
C26_RecordsCompleted ==
    /\ \A i \in DOMAIN log : log[i].status = "completed"
    /\ \A r \in Reqs : \A i \in DOMAIN req[r].pend.recs :
          req[r].pend.recs[i].status = "completed"

\* C26 witness: one transfer has committed its record and another, refused
\* for its balance, has written none.
C26_Witness ==
    /\ Len(log) = 1
    /\ \E r \in Reqs : req[r].resp = "400 Insufficient balance"
    /\ \E r \in Reqs : req[r].resp = Success

\* C29: a transfer that has left its handler has been answered, and an
\* answer 'Transfer successful' is given only with the commit done.
C29_ExactlyOneResponse ==
    \A r \in Reqs :
        /\ req[r].pc = "done" => req[r].resp /= "none"
        /\ req[r].resp = Success => req[r].server = "committed"

\* What a transfer with the request body a does to the seeded balances
\* when it runs alone.
AloneStatus(a) ==
    IF seed[a.from] >= a.amount THEN Success ELSE "400 Insufficient balance"

AloneBalance(a, u) ==
    IF seed[a.from] < a.amount THEN seed[u]
    ELSE IF u = a.from THEN fl(seed[u] - a.amount)
    ELSE IF u = a.to THEN fl(seed[u] + a.amount)
    ELSE seed[u]

\* C22: of two transfers over disjoint pairs of accounts neither ever fails
\* on a write, and each ends with the answer and the balances it has when
\* it runs alone.
C22_DisjointIndependent ==
    \A r \in DisjointReqs :
        /\ req[r].pc /= "catch"
        /\ req[r].failedAt = "none"
        /\ req[r].pc = "done" =>
              /\ req[r].resp = AloneStatus(req[r].args)
              /\ \A u \in {req[r].args.from, req[r].args.to} :
                    balance[u] = AloneBalance(req[r].args, u)

\* C22 witness: one transfer has committed while the other, which had
\* taken its snapshot before that commit, holds its own pending writes.
C22_Witness ==
    /\ req[1].resp = Success
    /\ req[2].pc = "commit"
    /\ req[2].snap.balance["u1"] = seed["u1"]
    /\ balance["u1"] /= seed["u1"]

\* C23: two transfers in opposite directions between one pair of accounts
\* both end, each with a response.
C23_OppositeTerminate ==
    <>(\A r \in OppositeReqs : req[r].pc = "done" /\ req[r].resp /= "none")

\* C23 witness: each transfer had written its own sender's account; the one
\* whose credit was then refused has answered 500 and the other has
\* succeeded.
C23_Witness ==
    \E r \in OppositeReqs, q \in OppositeReqs :
        /\ req[r].resp = "500 Transfer failed"
        /\ req[r].failedAt = "credit"
        /\ req[q].resp = Success

\* C27: the balance of an existing account changes only in the step that
\* commits a transfer from or to it, and no step removes an account.
C27_BalancesChangeOnlyByTransfer ==
    [][/\ accounts \subseteq accounts'
       /\ \A u \in accounts :
            balance'[u] /= balance[u] =>
                \E r \in Reqs :
                    /\ Commits(r)
                    /\ u \in {req[r].args.from, CastObjectId(req[r].args.to)}]_vars

\* C27 witness: a signup has created an account, the profile has been
\* updated and two read requests have been answered, with no transfer
\* committed and the balances of the older accounts as seeded.
C27_Witness ==
    /\ "u3" \in accounts
    /\ userDoc["u1"].firstName = "B"
    /\ reads = 2
    /\ obs.route = "statement"
    /\ obs.status = 200
    /\ log = <<>>
    /\ \A u \in {"u1", "u2"} : balance[u] = seed[u]

\* The positions, among the first k records, of those that name u.
Mine(u, k) ==
    {i \in 1..k : i <= Len(log) /\ (log[i].fromUserId = u \/ log[i].toUserId = u)}

\* How many of the records at the positions M are newer than the one at i.
Newer(M, i) == Cardinality({j \in M : j > i})

\* The pages 1..pages of s, one after another.
RECURSIVE Pages1To(_, _, _)
Pages1To(s, n, pages) ==
    IF pages = 0 THEN <<>>
    ELSE Pages1To(s, n, pages - 1) \o Page(s, (pages - 1) * n, n)

CeilDiv(total, n) == CHOOSE k \in 0..total : k * n >= total /\ (k = 0 \/ (k - 1) * n < total)

\* C28: a history response for page p and limit n holds, newest first,
\* exactly the records naming the caller that have p-1 full pages of newer
\* such records before them and fit on the page; total is the number of
\* such records when they were counted and pages is ceil(total / n); and
\* for every limit the pages of one state of the records, one after
\* another, are the caller's records, each once.
C28_HistoryPagination ==
    /\ (obs.route = "transactions" /\ obs.page >= 1 /\ obs.limit >= 1) =>
          LET u == obs.account
              n == obs.limit
              first == (obs.page - 1) * n
              M == Mine(u, obs.at)
              onPage == {i \in M : Newer(M, i) >= first /\ Newer(M, i) <= first + n - 1}
          IN  /\ Len(obs.records) = Cardinality(onPage)
              /\ \A i \in onPage :
                    LET t == obs.records[Newer(M, i) - first + 1]
                    IN  /\ t.amount = log[i].amount
                        /\ t.status = log[i].status
                        /\ t.type = IF log[i].fromUserId = u THEN "sent" ELSE "received"
              /\ obs.pc = "done" =>
                    /\ \E k \in obs.at..Len(log) : obs.total = Cardinality(Mine(u, k))
                    /\ obs.pages = CeilDiv(obs.total, n)
    /\ \A u \in users, n \in 1..3 :
          LET M == Mine(u, Len(log))
              all == Pages1To(Involving(u), n, CeilDiv(Cardinality(M), n))
          IN  /\ Len(all) = Cardinality(M)
              /\ \A i \in M : all[Newer(M, i) + 1] = log[i]

\* C28 witness: the second page of limit 1 has been answered with the older
\* of the caller's two records, total 2 and pages 2.
C28_Witness ==
    /\ obs.route = "transactions"
    /\ obs.status = 200
    /\ obs.page = 2
    /\ obs.limit = 1
    /\ obs.total = 2
    /\ obs.pages = 2
    /\ Len(obs.records) = 1
    /\ obs.records[1].amount = log[1].amount
    /\ log[1].amount /= log[2].amount

\* C30: whenever isAuthenticated is true localStorage holds a token, and
\* once signout has completed, with no sign-in or sign-up succeeding
\* since, isAuthenticated is false and user and token are null.
C30_AuthStoreInvariant ==
    /\ auth.isAuthenticated => auth.lsToken /= NoToken
    /\ auth.signedOut =>
          /\ ~auth.isAuthenticated
          /\ auth.user = Null
          /\ auth.token = NoToken

=============================================================================
